---- MODULE Spec2Model ----
(***************************************************************************)
(* PDF Q&A Bot: the browser frontend (frontend/src/App.js), the Express    *)
(* backend (server.js) and the retrieval service the backend calls         *)
(* (rag-service, described by the design notes kept with the sources).     *)
(*                                                                         *)
(* A client request travels  frontend/API client -> backend -> service.   *)
(* The service keeps one index (vectorstore) and one generation model,     *)
(* guarded by model_lock and by inference_semaphore.                       *)
(***************************************************************************)
EXTENDS Integers, Sequences, FiniteSets, TLC

----------------------------------------------------------------------------
(* Bounds of the model *)

\* service calls issued directly to the service in SpecGate
NCalls == 5
\* client requests in flight and service calls in flight in Spec
MaxReqs == 2
MaxCalls == 2
\* documents the page lists
MaxPdfs == 2
\* messages the page keeps in the chat of one document
MaxChat == 2

(* Program constants *)

\* inference_semaphore = asyncio.Semaphore(2)
SemaphoreLimit == 2
\* process.env.MAX_RETRY_ATTEMPTS || "3"
DefaultRetryAttempts == 3
\* if (question.length > 2000)
MaxQuestionLength == 2000

Docs == {"docA", "docB"}
None == "None"

----------------------------------------------------------------------------
VARIABLES
    \* ---- retrieval service ----
    vectorstore,        \* the service's single index: None or the document indexed
    generation_model,   \* None, or the device the loaded model lives on
    model_lock,         \* threading.Lock: 0 or the call holding it
    sem_value,          \* inference_semaphore._value
    sem_waiters,        \* inference_semaphore._waiters, in arrival order
    loads,              \* how many times the generation model was constructed
    calls,              \* the service's request handlers, by call id
    \* ---- backend (server.js) ----
    MAX_RETRY_ATTEMPTS, \* const MAX_RETRY_ATTEMPTS = parseInt(process.env...), set at start
    reqs,               \* the client requests and their handlers, by request id
    \* ---- frontend (App.js) ----
    pdfs,               \* useState([]): the uploaded documents, {name, chat}
    selectedPdf,        \* useState(null): the name of the selected document
    uploading,          \* useState(false)
    asking,             \* useState(false)
    summarizing         \* useState(false)

feVars == <<MAX_RETRY_ATTEMPTS, pdfs, selectedPdf, uploading, asking, summarizing>>

clientVars == <<MAX_RETRY_ATTEMPTS, reqs, pdfs, selectedPdf, uploading, asking,
                summarizing>>

vars == <<vectorstore, generation_model, model_lock, sem_value, sem_waiters,
          loads, calls, MAX_RETRY_ATTEMPTS, reqs, pdfs, selectedPdf, uploading,
          asking, summarizing>>

CallIds == DOMAIN calls

\* A call slot nobody uses yet.
FreeCall ==
    [kind |-> "none", pc |-> "free", req |-> 0, used |-> None, q |-> None,
     sid |-> None, queued |-> FALSE, cleaned |-> FALSE, status |-> 0,
     encoded |-> 0]

\* Positions of a call inside `async with inference_semaphore`.
InSlot == {"held", "loading", "generating"}

\* Positions at which a call has left generate_response.
Exited == {"ok", "oom", "err"}

----------------------------------------------------------------------------
(* What the service answers *)

\* HTTP status of the service's response, by the way the handler ended: an
\* answer, an index stored, HTTPException(503) from the out-of-memory
\* handler, or an unhandled exception.
HTTPStatus(exit) ==
    CASE exit = "ok"     -> 200
      [] exit = "stored" -> 200
      [] exit = "oom"    -> 503
      [] exit = "err"    -> 500
      [] exit = "failed" -> 500

----------------------------------------------------------------------------
(* asyncio.Semaphore *)

\* Semaphore.locked(): no slot left, or somebody is queued already.
locked == sem_value = 0 \/ Len(sem_waiters) > 0

\* Index in `waiters` of the first waiter whose future is still pending; 0 if none.
FirstPending(waiters, cs) ==
    IF \E i \in 1..Len(waiters) : cs[waiters[i]].pc = "waiting"
    THEN CHOOSE i \in 1..Len(waiters) :
            /\ cs[waiters[i]].pc = "waiting"
            /\ \A j \in 1..(i - 1) : cs[waiters[j]].pc # "waiting"
    ELSE 0

\* A wake-up that takes the most recent pending waiter instead of the oldest.
wake_up_last(waiters, cs) ==
    IF FirstPending(waiters, cs) = 0 THEN 0
    ELSE waiters[CHOOSE i \in 1..Len(waiters) :
                    /\ cs[waiters[i]].pc = "waiting"
                    /\ \A j \in (i + 1)..Len(waiters) : cs[waiters[j]].pc # "waiting"]

\* Semaphore._wake_up_next(): the waiter whose future is resolved; 0 if none.
wake_up_next(waiters, cs) ==
    IF FirstPending(waiters, cs) = 0 THEN 0 ELSE waiters[FirstPending(waiters, cs)]

RemoveFrom(seq, x) == SelectSeq(seq, LAMBDA y : y # x)

\* A release that gives the slot back but wakes nobody.
sem_release_nowake(c, exit, cleaned) ==
    /\ sem_value' = sem_value + 1
    /\ calls' = [calls EXCEPT ![c].pc = exit, ![c].cleaned = cleaned,
                              ![c].status = HTTPStatus(exit)]
    /\ UNCHANGED sem_waiters

\* `async with inference_semaphore` on exit: Semaphore.release(), by call c that
\* leaves generate_response at position `exit`. The value goes up by one and
\* _wake_up_next() hands it to the first pending waiter, if any.
sem_release(c, exit, cleaned) ==
    LET w == wake_up_next(sem_waiters, calls) IN
    /\ sem_value' = IF w = 0 THEN sem_value + 1 ELSE sem_value
    /\ calls' = [d \in CallIds |->
                    IF d = c THEN [calls[c] EXCEPT !.pc = exit, !.cleaned = cleaned,
                                                   !.status = HTTPStatus(exit)]
                    ELSE IF d = w THEN [calls[d] EXCEPT !.pc = "woken"]
                    ELSE calls[d]]
    /\ UNCHANGED sem_waiters

\* An acquire that never waits: every caller enters at once.
sem_acquire_unbounded(c, entry) ==
    /\ sem_value' = sem_value - 1
    /\ calls' = [calls EXCEPT
                    ![c] = [entry EXCEPT !.pc = "held"]]
    /\ UNCHANGED sem_waiters

\* `async with inference_semaphore` on entry: Semaphore.acquire(), by call c
\* whose record is `entry` as it reaches the semaphore. A caller takes a slot
\* at once only if the semaphore is not locked; otherwise it appends its
\* future to _waiters and waits.
sem_acquire(c, entry) ==
    /\ IF ~locked
       THEN /\ sem_value' = sem_value - 1
            /\ calls' = [calls EXCEPT
                            ![c] = [entry EXCEPT !.pc = "held"]]
            /\ UNCHANGED sem_waiters
       ELSE /\ sem_waiters' = Append(sem_waiters, c)
            /\ calls' = [calls EXCEPT
                            ![c] = [entry EXCEPT !.pc = "waiting", !.queued = TRUE]]
            /\ UNCHANGED sem_value

\* Semaphore.acquire() after its future was resolved: the waiter removes its
\* future from _waiters, and wakes the next waiter if a slot is left over.
sem_resume(c) ==
    /\ calls[c].pc = "woken"
    /\ LET rest == RemoveFrom(sem_waiters, c)
           w    == IF sem_value > 0 THEN wake_up_next(rest, calls) ELSE 0
       IN /\ sem_waiters' = rest
          /\ sem_value' = IF w = 0 THEN sem_value ELSE sem_value - 1
          /\ calls' = [d \in CallIds |->
                          IF d = c THEN [calls[c] EXCEPT !.pc = "held"]
                          ELSE IF d = w THEN [calls[d] EXCEPT !.pc = "woken"]
                          ELSE calls[d]]
    /\ UNCHANGED <<vectorstore, generation_model, model_lock, loads>>
    /\ UNCHANGED clientVars

----------------------------------------------------------------------------
(* Model loading *)

\* A load without the lock: the check and the load are no longer one step.
load_generation_model_unlocked(c) ==
    /\ calls[c].pc = "held"
    /\ IF generation_model # None
       THEN /\ calls' = [calls EXCEPT ![c].pc = "generating"]
            /\ UNCHANGED model_lock
       ELSE /\ calls' = [calls EXCEPT ![c].pc = "loading"]
            /\ model_lock' = c
    /\ UNCHANGED <<vectorstore, generation_model, sem_value, sem_waiters, loads>>
    /\ UNCHANGED clientVars

\* load_generation_model(): `with model_lock:` then the check of
\* generation_model. A loaded model is returned at once; otherwise the caller
\* keeps the lock and starts loading.
load_generation_model(c) ==
    /\ calls[c].pc = "held"
    /\ model_lock = 0
    /\ IF generation_model # None
       THEN /\ calls' = [calls EXCEPT ![c].pc = "generating"]
            /\ UNCHANGED model_lock
       ELSE /\ calls' = [calls EXCEPT ![c].pc = "loading"]
            /\ model_lock' = c
    /\ UNCHANGED <<vectorstore, generation_model, sem_value, sem_waiters, loads>>
    /\ UNCHANGED clientVars

\* The device the freshly loaded model ends on: .to("cuda"), or .to("cpu")
\* when the GPU allocation raises RuntimeError.
Devices == {"cuda", "cpu"}

\* A load that gives up when the GPU allocation fails: the global is left
\* unset and the next caller loads again.
finish_load_nofallback(c, device) ==
    /\ calls[c].pc = "loading"
    /\ generation_model' = IF device = "cpu" THEN None ELSE device
    /\ loads' = loads + 1
    /\ model_lock' = 0
    /\ calls' = [calls EXCEPT ![c].pc = "generating"]
    /\ UNCHANGED <<vectorstore, sem_value, sem_waiters>>
    /\ UNCHANGED clientVars

\* The end of the load: the model is moved to its device, stored in the
\* global, and the lock is released on leaving the `with` block.
finish_load(c, device) ==
    /\ calls[c].pc = "loading"
    /\ generation_model' = device
    /\ loads' = loads + 1
    /\ model_lock' = 0
    /\ calls' = [calls EXCEPT ![c].pc = "generating"]
    /\ UNCHANGED <<vectorstore, sem_value, sem_waiters>>
    /\ UNCHANGED clientVars

----------------------------------------------------------------------------
(* Generation *)

\* What model.generate() can do: return, raise RuntimeError("... out of
\* memory ...") on the GPU, or raise another RuntimeError.
Outcomes == {"ok", "oom", "err"}

\* torch.cuda.empty_cache() is called after a successful generate() when the
\* model is on the GPU, and in the out-of-memory handler.
CleansUp(outcome) ==
    \/ outcome = "ok" /\ generation_model = "cuda"
    \/ outcome = "oom"

\* An out-of-memory handler that also throws the loaded model away.
generate_response_unload(c, outcome) ==
    /\ calls[c].pc = "generating"
    /\ outcome = "oom" => generation_model = "cuda"
    /\ sem_release(c, outcome, CleansUp(outcome))
    /\ generation_model' = IF outcome = "oom" THEN None ELSE generation_model
    /\ UNCHANGED <<vectorstore, model_lock, loads>>
    /\ UNCHANGED clientVars

\* generate_response(): model.generate() ends, the cache is emptied as the
\* code does for this outcome, and `async with` releases the slot.
generate_response(c, outcome) ==
    /\ calls[c].pc = "generating"
    /\ outcome = "oom" => generation_model = "cuda"
    /\ sem_release(c, outcome, CleansUp(outcome))
    /\ UNCHANGED <<vectorstore, generation_model, model_lock, loads>>
    /\ UNCHANGED clientVars

Terminal == {"ok", "nodoc", "stored", "oom", "err", "failed"}

----------------------------------------------------------------------------
(* Service endpoints *)

\* POST /ask and POST /summarize of the service (async def): the search runs
\* against the global vectorstore, whatever the request body says, and the
\* prompt goes to generate_response, which enters the semaphore; the handler
\* does not yield before that. While nothing is indexed (qa_chain = False)
\* there is nothing to answer from: the reply carries no answer, and is a
\* message (200) or a client error (400).
NoIndexStatus == {200, 400}

\* tokenizer(prompt, truncation=True, max_length=2048)
MaxPromptTokens == 2048

\* The tokens of the context retrieved from a document, the k best chunks
\* joined: docA is a short document whose chunks fit the prompt, docB a long
\* one whose chunks do not.
ContextTokens(d) ==
    CASE d = "docA" -> MaxPromptTokens \div 2
      [] d = "docB" -> 2 * MaxPromptTokens

\* The tokens of the prompt of call c over document d: the context and, for
\* a question, the question.
PromptTokens(d, call) ==
    ContextTokens(d) + (IF call.kind = "ask" THEN call.q.core ELSE 0)

\* The tokens that reach the model: the tokenizer cuts the prompt at
\* max_length and reports nothing.
tokenizer(n) == IF n > MaxPromptTokens THEN MaxPromptTokens ELSE n

ask_question(c) ==
    /\ calls[c].pc = "recv"
    /\ calls[c].kind \in {"ask", "summarize"}
    /\ IF vectorstore = None
       THEN /\ \E st \in NoIndexStatus :
                  calls' = [calls EXCEPT ![c].pc = "nodoc", ![c].status = st]
            /\ UNCHANGED <<sem_value, sem_waiters>>
       ELSE sem_acquire(c, [calls[c] EXCEPT
                               !.used = vectorstore,
                               !.encoded = tokenizer(PromptTokens(vectorstore, calls[c]))])
    /\ UNCHANGED <<vectorstore, generation_model, model_lock, loads>>
    /\ UNCHANGED clientVars

\* POST /process-pdf, first half: PyPDFLoader.load() and the embedding of the
\* chunks, into an index local to the request; a file that cannot be read
\* ends the request with an error.
process_pdf_build(c, ok) ==
    /\ calls[c].pc = "recv"
    /\ calls[c].kind = "process"
    /\ calls' = [calls EXCEPT ![c].pc = IF ok THEN "built" ELSE "failed",
                              ![c].status = IF ok THEN 0 ELSE HTTPStatus("failed")]
    /\ UNCHANGED <<vectorstore, generation_model, model_lock, sem_value,
                   sem_waiters, loads>>
    /\ UNCHANGED clientVars

\* POST /process-pdf, second half: vectorstore = FAISS.from_documents(...)
\* assigns the global.
process_pdf_store(c) ==
    /\ calls[c].pc = "built"
    /\ vectorstore' = calls[c].used
    /\ calls' = [calls EXCEPT ![c].pc = "stored", ![c].status = HTTPStatus("stored")]
    /\ UNCHANGED <<generation_model, model_lock, sem_value, sem_waiters, loads>>
    /\ UNCHANGED clientVars

----------------------------------------------------------------------------
(* Questions *)

\* A question is a string of `lead` whitespace characters, `core` characters
\* that begin and end with a non-whitespace one, and `trail` whitespace
\* characters; or it is no string at all (missing, a number, an object).
Str(lead, core, trail) == [str |-> TRUE, lead |-> lead, core |-> core, trail |-> trail]
NotAString == [str |-> FALSE, lead |-> 0, core |-> 0, trail |-> 0]

\* typeof question === 'string'
IsString(q) == q.str
Length(q) == q.lead + q.core + q.trail

\* String.prototype.trim()
trim(q) == Str(0, q.core, 0)

\* The length check made on the trimmed question.
AskRejected_trimmed(q) ==
    \/ ~IsString(q)
    \/ Length(q) = 0
    \/ Length(trim(q)) = 0
    \/ Length(trim(q)) > MaxQuestionLength

\* The checks of app.post("/ask") before the try block: 400 unless the
\* question is a non-empty string, not blank, and at most 2000 characters.
AskRejected(q) ==
    \/ ~IsString(q)
    \/ Length(q) = 0
    \/ Length(trim(q)) = 0
    \/ Length(q) > MaxQuestionLength

\* The checks of askQuestion in the page, which always holds a string.
AskRefused(q) ==
    \/ Length(q) = 0
    \/ Length(trim(q)) = 0
    \/ Length(q) > MaxQuestionLength

----------------------------------------------------------------------------
(* Client requests *)

ReqIds == DOMAIN reqs

\* The value of a timer field while no timer runs: never set, cleared
\* (clearTimeout), or fired.
NoTimer == -1

FreeReq ==
    [kind |-> "none", origin |-> "none", pc |-> "free", file |-> None,
     pdf |-> None, q |-> None, sid |-> None, call |-> 0, attempts |-> 0,
     status |-> 0, from |-> None, rsid |-> None, contextTruncated |-> FALSE,
     timeoutId |-> NoTimer, timeout |-> NoTimer]

\* The req field of a call the backend has given up (its response is dropped).
Abandoned == -1

\* Request and call ids name the requests in flight, nothing else: a new one
\* takes the lowest id that is free, and an id is free again once the
\* response was taken.
NewReq(r) ==
    /\ reqs[r].pc = "free"
    /\ \A x \in ReqIds : x < r => reqs[x].pc # "free"

NewCall(c) ==
    /\ calls[c].pc = "free"
    /\ \A x \in CallIds : x < c => calls[x].pc # "free"

\* The name the page lists an uploaded file under: file.name.
FileName(f) == f

----------------------------------------------------------------------------
(* Backend: server.js *)

\* The request the backend posts to the service for client request r:
\*   /process-pdf  { filePath }
\*   /ask          { question: question.trim() }
\*   /summarize    req.body || {}
\* Only /summarize passes a sessionId of the client's body on.
UpstreamCall(r) ==
    CASE reqs[r].kind = "upload" ->
            [FreeCall EXCEPT !.kind = "process", !.pc = "recv", !.req = r,
                             !.used = reqs[r].file]
      [] reqs[r].kind = "ask" ->
            [FreeCall EXCEPT !.kind = "ask", !.pc = "recv", !.req = r,
                             !.q = trim(reqs[r].q)]
      [] reqs[r].kind = "summarize" ->
            [FreeCall EXCEPT !.kind = "summarize", !.pc = "recv", !.req = r,
                             !.sid = reqs[r].sid]

\* The time, in milliseconds, axios gives one attempt of a post to the
\* service (the timeout option of each axios.post), by default.
API_REQUEST_TIMEOUT == 45000

\* retryDelay: the wait before retry number retryNumber, 2^retryNumber times
\* 100 ms at least.
exponentialDelay(retryNumber) == (2 ^ retryNumber) * 100

\* res.status(status).json(...): the response of the backend. No response of
\* the backend carries a sessionId, and res.json({ answer }) carries no
\* contextTruncated.
Respond(r, status, from) ==
    [reqs[r] EXCEPT !.pc = "responded", !.status = status, !.from = from,
                    !.call = 0, !.rsid = None, !.contextTruncated = FALSE,
                    !.timeout = NoTimer]

\* The first attempt of axios.post.
Forward(r) ==
    \E c \in CallIds :
        /\ NewCall(c)
        /\ calls' = [calls EXCEPT ![c] = UpstreamCall(r)]
        /\ reqs' = [reqs EXCEPT ![r].pc = "forwarded", ![r].call = c, ![r].attempts = 1,
                                ![r].timeout = API_REQUEST_TIMEOUT]

\* app.post("/upload"): 400 without a file, else the file path goes to the
\* service.
upload_handler(r) ==
    /\ reqs[r].kind = "upload" /\ reqs[r].pc = "sent"
    /\ IF reqs[r].file = None
       THEN /\ reqs' = [reqs EXCEPT ![r] = Respond(r, 400, None)]
            /\ UNCHANGED calls
       ELSE Forward(r)
    /\ UNCHANGED feVars
    /\ UNCHANGED <<vectorstore, generation_model, model_lock, sem_value,
                   sem_waiters, loads>>

\* app.post("/ask"): const { question } = req.body; 400 on a bad question,
\* else the trimmed question goes to the service.
ask_handler(r) ==
    /\ reqs[r].kind = "ask" /\ reqs[r].pc = "sent"
    /\ IF AskRejected(reqs[r].q)
       THEN /\ reqs' = [reqs EXCEPT ![r] = Respond(r, 400, None)]
            /\ UNCHANGED calls
       ELSE Forward(r)
    /\ UNCHANGED feVars
    /\ UNCHANGED <<vectorstore, generation_model, model_lock, sem_value,
                   sem_waiters, loads>>

\* app.post("/summarize"): the body goes to the service as it came.
summarize_handler(r) ==
    /\ reqs[r].kind = "summarize" /\ reqs[r].pc = "sent"
    /\ Forward(r)
    /\ UNCHANGED feVars
    /\ UNCHANGED <<vectorstore, generation_model, model_lock, sem_value,
                   sem_waiters, loads>>

\* err.response?.status of an error that carries no response.
NoResponse == 0

\* err.code: the attempt ran out of time, the service could not be reached,
\* or the error is an HTTP response and has no code of interest.
ErrorCodes == {"ECONNABORTED", "ECONNREFUSED", None}

\* A retry after every failed attempt, whatever the failure.
retryCondition_always(status, code) == TRUE

\* axiosRetry retryCondition: a network error (no response and a code other
\* than ECONNABORTED; a POST is not retried as an idempotent request), a
\* timeout (ECONNABORTED), or a 5xx response.
retryCondition(status, code) ==
    \/ status = NoResponse /\ code \notin {None, "ECONNABORTED"}
    \/ code = "ECONNABORTED"
    \/ status >= 500

\* A catch block without the branch for timeouts.
ErrorStatus_plain(kind, status, code) ==
    IF kind = "upload" THEN 500
    ELSE IF status = NoResponse THEN 500
    ELSE status

\* The status the catch block answers with: 504 on a timeout or an upstream
\* 504; otherwise /upload answers 500 and /ask, /summarize the upstream
\* status, or 500 when the error carries no response.
ErrorStatus(kind, status, code) ==
    IF code = "ECONNABORTED" \/ status = 504 THEN 504
    ELSE IF kind = "upload" THEN 500
    ELSE IF status = NoResponse THEN 500
    ELSE status

\* The document an answer of the service was computed from.
AnswerFrom(c) ==
    IF calls[c].kind \in {"ask", "summarize"} /\ calls[c].pc = "ok"
    THEN calls[c].used ELSE None

\* The statuses of the error kinds a service may answer with: invalid input,
\* session not found, internal error, overloaded or exhausted, timed out.
ErrorStatuses == {400, 404, 500, 503, 504}

\* The time left to a retry when it is decided: its delay, then the timeout
\* of the new attempt.
Retry(r) == exponentialDelay(reqs[r].attempts) + API_REQUEST_TIMEOUT

\* axios.post rejects with err.response.status: the service answers the
\* attempt with an error status, whatever made it do so.
service_fails(c, st) ==
    /\ calls[c].pc = "recv"
    /\ calls[c].req \in ReqIds
    /\ calls' = [calls EXCEPT ![c].pc = "err", ![c].status = st]
    /\ UNCHANGED clientVars
    /\ UNCHANGED <<vectorstore, generation_model, model_lock, sem_value,
                   sem_waiters, loads>>

\* The await of axios.post returns or throws: the service has answered the
\* current attempt. A 2xx is passed on; a 5xx is retried (a new call of the
\* service) while retries are left; any other failure goes to the catch block.
upstream_settled(r) ==
    /\ reqs[r].pc = "forwarded"
    /\ calls[reqs[r].call].pc \in Terminal
    /\ LET c  == reqs[r].call
           st == calls[c].status
       IN IF st = 200
          THEN /\ reqs' = [reqs EXCEPT ![r] = Respond(r, 200, AnswerFrom(c))]
               /\ calls' = [calls EXCEPT ![c] = FreeCall]
          ELSE IF retryCondition(st, None) /\ reqs[r].attempts <= MAX_RETRY_ATTEMPTS
          THEN /\ calls' = [calls EXCEPT ![c] = UpstreamCall(r)]
               /\ reqs' = [reqs EXCEPT ![r].attempts = reqs[r].attempts + 1,
                                       ![r].timeout = Retry(r)]
          ELSE /\ reqs' = [reqs EXCEPT
                              ![r] = Respond(r, ErrorStatus(reqs[r].kind, st, None), None)]
               /\ calls' = [calls EXCEPT ![c] = FreeCall]
    /\ UNCHANGED feVars
    /\ UNCHANGED <<vectorstore, generation_model, model_lock, sem_value,
                   sem_waiters, loads>>

\* A request without the timeout option: axios waits for the service for ever.
upstream_timeout_unset(r) ==
    /\ FALSE
    /\ UNCHANGED vars

\* The attempt takes longer than API_REQUEST_TIMEOUT: axios gives it up
\* (ECONNABORTED) while the service goes on with it; it is retried while
\* retries are left, else the catch block answers 504.
upstream_timeout(r) ==
    /\ reqs[r].pc = "forwarded"
    /\ calls[reqs[r].call].pc \notin Terminal
    /\ LET c == reqs[r].call
       IN IF retryCondition(NoResponse, "ECONNABORTED")
             /\ reqs[r].attempts <= MAX_RETRY_ATTEMPTS
          THEN \E n \in CallIds :
                  /\ NewCall(n)
                  /\ calls' = [calls EXCEPT ![c].req = Abandoned, ![n] = UpstreamCall(r)]
                  /\ reqs' = [reqs EXCEPT ![r].call = n,
                                          ![r].attempts = reqs[r].attempts + 1,
                                          ![r].timeout = Retry(r)]
          ELSE /\ reqs' = [reqs EXCEPT
                              ![r] = Respond(r, ErrorStatus(reqs[r].kind, NoResponse, "ECONNABORTED"),
                                             None)]
               /\ calls' = [calls EXCEPT ![c].req = Abandoned]
    /\ UNCHANGED feVars
    /\ UNCHANGED <<vectorstore, generation_model, model_lock, sem_value,
                   sem_waiters, loads>>

\* The attempt does not reach the service (ECONNREFUSED, the service being
\* down or restarting): axios rejects with a code and without a response; it
\* is retried while retries are left, else the catch block answers.
network_error(r) ==
    /\ reqs[r].pc = "forwarded"
    /\ calls[reqs[r].call].pc = "recv"
    /\ LET c == reqs[r].call
       IN IF retryCondition(NoResponse, "ECONNREFUSED")
             /\ reqs[r].attempts <= MAX_RETRY_ATTEMPTS
          THEN /\ calls' = [calls EXCEPT ![c] = UpstreamCall(r)]
               /\ reqs' = [reqs EXCEPT ![r].attempts = reqs[r].attempts + 1,
                                       ![r].timeout = Retry(r)]
          ELSE /\ reqs' = [reqs EXCEPT
                              ![r] = Respond(r, ErrorStatus(reqs[r].kind, NoResponse,
                                                            "ECONNREFUSED"), None)]
               /\ calls' = [calls EXCEPT ![c] = FreeCall]
    /\ UNCHANGED feVars
    /\ UNCHANGED <<vectorstore, generation_model, model_lock, sem_value,
                   sem_waiters, loads>>

\* The service answers an attempt the backend has given up: nobody reads it.
response_dropped(c) ==
    /\ calls[c].req = Abandoned
    /\ calls[c].pc \in Terminal
    /\ calls' = [calls EXCEPT ![c] = FreeCall]
    /\ UNCHANGED clientVars
    /\ UNCHANGED <<vectorstore, generation_model, model_lock, sem_value,
                   sem_waiters, loads>>

----------------------------------------------------------------------------
(* Frontend: frontend/src/App.js *)

\* The delays of the timers that abort a post of the page, in milliseconds:
\* setTimeout(() => controller.abort(), ...) of uploadPDF, askQuestion and
\* summarizePDF.
UploadAbortAfter == 90000
AskAbortAfter == 60000
SummarizeAbortAfter == 60000

\* An entry of pdfs as uploadPDF creates it: {name, url, chat: []}.
NewPdf(f) == [name |-> FileName(f), chat |-> <<>>]

\* A chat message: { role, text }.
Message(role, text) == [role |-> role, text |-> text]

\* prev.map(pdf => pdf.name === name ? {...pdf, chat: [...pdf.chat, msg]} : pdf)
AppendChat(prev, name, msg) ==
    [i \in 1..Len(prev) |->
        IF prev[i].name = name
        THEN [prev[i] EXCEPT !.chat = Append(prev[i].chat, msg)]
        ELSE prev[i]]

\* The text of the bot message for a response: res.data.answer or
\* res.data.summary on success, the text for a gateway timeout on 504, else
\* the error of the response.
ReplyText(kind, status) ==
    IF status = 200 THEN (IF kind = "ask" THEN "answer" ELSE "summary")
    ELSE IF status = 504 THEN "Gateway timeout"
    ELSE "error"

\* The text of the bot message when the page's own timer has aborted the
\* request (AbortError).
AbortText == "Request timed out"

\* A request of the page to which the page still awaits the response.
Awaited(r) ==
    reqs[r].origin = "fe" /\ reqs[r].pc \in {"sent", "forwarded", "responded"}

\* Messages that requests awaited by the page will still add to the chats
\* of the documents called `name`, and the room these chats have left.
Pending(name) ==
    Cardinality({r \in ReqIds :
        Awaited(r) /\ reqs[r].kind \in {"ask", "summarize"} /\ reqs[r].pdf = name})

Room(name) ==
    LET lens == {Len(pdfs[i].chat) : i \in {j \in 1..Len(pdfs) : pdfs[j].name = name}}
    IN  MaxChat - Pending(name) - (CHOOSE n \in lens : \A m \in lens : m <= n)

\* uploadPDF up to the await: the chosen file is posted to /upload. The
\* button is disabled while no file is chosen or an upload is running.
uploadPDF(r, f) ==
    /\ NewReq(r)
    /\ ~uploading
    /\ Len(pdfs) < MaxPdfs
    /\ uploading' = TRUE
    /\ reqs' = [reqs EXCEPT ![r] = [FreeReq EXCEPT !.kind = "upload", !.origin = "fe",
                                                   !.pc = "sent", !.file = f,
                                                   !.timeoutId = UploadAbortAfter]]
    /\ UNCHANGED <<MAX_RETRY_ATTEMPTS, pdfs, selectedPdf, asking, summarizing>>
    /\ UNCHANGED <<vectorstore, generation_model, model_lock, sem_value,
                   sem_waiters, loads, calls>>

\* The file listed and selected whatever the response was.
uploadPDF_settled_listed(r) ==
    /\ reqs[r].kind = "upload" /\ reqs[r].origin = "fe" /\ reqs[r].pc = "responded"
    /\ pdfs' = Append(pdfs, NewPdf(reqs[r].file))
    /\ selectedPdf' = FileName(reqs[r].file)
    /\ uploading' = FALSE
    /\ reqs' = [reqs EXCEPT ![r] = FreeReq]
    /\ UNCHANGED <<MAX_RETRY_ATTEMPTS, asking, summarizing>>
    /\ UNCHANGED <<vectorstore, generation_model, model_lock, sem_value,
                   sem_waiters, loads, calls>>

\* uploadPDF after the await: on success the file is listed and selected, on
\* failure an alert is shown; finally the timer is cleared and uploading reset.
uploadPDF_settled(r) ==
    /\ reqs[r].kind = "upload" /\ reqs[r].origin = "fe" /\ reqs[r].pc = "responded"
    /\ IF reqs[r].status = 200
       THEN /\ pdfs' = Append(pdfs, NewPdf(reqs[r].file))
            /\ selectedPdf' = FileName(reqs[r].file)
       ELSE UNCHANGED <<pdfs, selectedPdf>>
    /\ uploading' = FALSE
    /\ reqs' = [reqs EXCEPT ![r] = FreeReq]
    /\ UNCHANGED <<MAX_RETRY_ATTEMPTS, asking, summarizing>>
    /\ UNCHANGED <<vectorstore, generation_model, model_lock, sem_value,
                   sem_waiters, loads, calls>>

\* uploadPDF when its timer fires first (90 s): controller.abort() rejects
\* the post, an alert is shown, and uploading is reset. The backend goes on
\* with the request; nobody awaits its response any more.
uploadPDF_aborted(r) ==
    /\ reqs[r].kind = "upload" /\ Awaited(r)
    /\ uploading' = FALSE
    /\ reqs' = [reqs EXCEPT ![r].origin = "gone", ![r].timeoutId = NoTimer]
    /\ UNCHANGED <<MAX_RETRY_ATTEMPTS, pdfs, selectedPdf, asking, summarizing>>
    /\ UNCHANGED <<vectorstore, generation_model, model_lock, sem_value,
                   sem_waiters, loads, calls>>

\* Dropdown.Item onClick: setSelectedPdf(pdf.name)
setSelectedPdf(i) ==
    /\ i \in 1..Len(pdfs)
    /\ selectedPdf # pdfs[i].name
    /\ selectedPdf' = pdfs[i].name
    /\ UNCHANGED <<MAX_RETRY_ATTEMPTS, reqs, pdfs, uploading, asking, summarizing>>
    /\ UNCHANGED <<vectorstore, generation_model, model_lock, sem_value,
                   sem_waiters, loads, calls>>

\* askQuestion up to the await: with a document selected and a question that
\* passes the checks, the question is added to the chat of the selected
\* document and { question: trimmedQuestion } is posted to /ask. The request
\* body names no document and no session. The input and the button are
\* disabled while asking.
askQuestion(r, q) ==
    /\ NewReq(r)
    /\ selectedPdf # None
    /\ ~asking
    /\ ~AskRefused(q)
    /\ Room(selectedPdf) >= 2
    /\ asking' = TRUE
    /\ pdfs' = AppendChat(pdfs, selectedPdf, Message("user", trim(q)))
    /\ reqs' = [reqs EXCEPT ![r] = [FreeReq EXCEPT !.kind = "ask", !.origin = "fe",
                                                   !.pc = "sent", !.pdf = selectedPdf,
                                                   !.q = trim(q),
                                                   !.timeoutId = AskAbortAfter]]
    /\ UNCHANGED <<MAX_RETRY_ATTEMPTS, selectedPdf, uploading, summarizing>>
    /\ UNCHANGED <<vectorstore, generation_model, model_lock, sem_value,
                   sem_waiters, loads, calls>>

\* The reply added to the chat of the document selected now.
askQuestion_settled_current(r) ==
    /\ reqs[r].kind = "ask" /\ reqs[r].origin = "fe" /\ reqs[r].pc = "responded"
    /\ pdfs' = AppendChat(pdfs, selectedPdf,
                          Message("bot", ReplyText("ask", reqs[r].status)))
    /\ asking' = FALSE
    /\ reqs' = [reqs EXCEPT ![r] = FreeReq]
    /\ UNCHANGED <<MAX_RETRY_ATTEMPTS, selectedPdf, uploading, summarizing>>
    /\ UNCHANGED <<vectorstore, generation_model, model_lock, sem_value,
                   sem_waiters, loads, calls>>

\* askQuestion after the await: the answer or the error text is added to the
\* chat of the document the call was started for (the selectedPdf of its
\* closure); finally the timer is cleared and asking reset.
askQuestion_settled(r) ==
    /\ reqs[r].kind = "ask" /\ reqs[r].origin = "fe" /\ reqs[r].pc = "responded"
    /\ pdfs' = AppendChat(pdfs, reqs[r].pdf,
                          Message("bot", ReplyText("ask", reqs[r].status)))
    /\ asking' = FALSE
    /\ reqs' = [reqs EXCEPT ![r] = FreeReq]
    /\ UNCHANGED <<MAX_RETRY_ATTEMPTS, selectedPdf, uploading, summarizing>>
    /\ UNCHANGED <<vectorstore, generation_model, model_lock, sem_value,
                   sem_waiters, loads, calls>>

\* An abort that shows nothing in the chat.
askQuestion_aborted_silent(r) ==
    /\ reqs[r].kind = "ask" /\ Awaited(r)
    /\ asking' = FALSE
    /\ reqs' = [reqs EXCEPT ![r].origin = "gone", ![r].timeoutId = NoTimer]
    /\ UNCHANGED <<MAX_RETRY_ATTEMPTS, pdfs, selectedPdf, uploading, summarizing>>
    /\ UNCHANGED <<vectorstore, generation_model, model_lock, sem_value,
                   sem_waiters, loads, calls>>

\* An abort that leaves the page waiting: the flag is not reset.
askQuestion_aborted_busy(r) ==
    /\ reqs[r].kind = "ask" /\ Awaited(r)
    /\ pdfs' = AppendChat(pdfs, reqs[r].pdf, Message("bot", AbortText))
    /\ reqs' = [reqs EXCEPT ![r].origin = "gone", ![r].timeoutId = NoTimer]
    /\ UNCHANGED <<MAX_RETRY_ATTEMPTS, selectedPdf, uploading, asking, summarizing>>
    /\ UNCHANGED <<vectorstore, generation_model, model_lock, sem_value,
                   sem_waiters, loads, calls>>

\* askQuestion when its timer fires first (60 s): controller.abort() rejects
\* the post, the catch block adds the timeout text to the chat, and asking
\* is reset. The backend goes on with the request.
askQuestion_aborted(r) ==
    /\ reqs[r].kind = "ask" /\ Awaited(r)
    /\ pdfs' = AppendChat(pdfs, reqs[r].pdf, Message("bot", AbortText))
    /\ asking' = FALSE
    /\ reqs' = [reqs EXCEPT ![r].origin = "gone", ![r].timeoutId = NoTimer]
    /\ UNCHANGED <<MAX_RETRY_ATTEMPTS, selectedPdf, uploading, summarizing>>
    /\ UNCHANGED <<vectorstore, generation_model, model_lock, sem_value,
                   sem_waiters, loads, calls>>

\* summarizePDF up to the await: { pdf: selectedPdf } is posted to /summarize.
\* The button is disabled while summarizing.
summarizePDF(r) ==
    /\ NewReq(r)
    /\ selectedPdf # None
    /\ ~summarizing
    /\ Room(selectedPdf) >= 1
    /\ summarizing' = TRUE
    /\ reqs' = [reqs EXCEPT ![r] = [FreeReq EXCEPT !.kind = "summarize", !.origin = "fe",
                                                   !.pc = "sent", !.pdf = selectedPdf,
                                                   !.timeoutId = SummarizeAbortAfter]]
    /\ UNCHANGED <<MAX_RETRY_ATTEMPTS, pdfs, selectedPdf, uploading, asking>>
    /\ UNCHANGED <<vectorstore, generation_model, model_lock, sem_value,
                   sem_waiters, loads, calls>>

\* summarizePDF after the await: the summary or the error text is added to
\* the chat of the document the call was started for; finally the timer is
\* cleared and summarizing reset.
summarizePDF_settled(r) ==
    /\ reqs[r].kind = "summarize" /\ reqs[r].origin = "fe" /\ reqs[r].pc = "responded"
    /\ pdfs' = AppendChat(pdfs, reqs[r].pdf,
                          Message("bot", ReplyText("summarize", reqs[r].status)))
    /\ summarizing' = FALSE
    /\ reqs' = [reqs EXCEPT ![r] = FreeReq]
    /\ UNCHANGED <<MAX_RETRY_ATTEMPTS, selectedPdf, uploading, asking>>
    /\ UNCHANGED <<vectorstore, generation_model, model_lock, sem_value,
                   sem_waiters, loads, calls>>

\* summarizePDF when its timer fires first (60 s).
summarizePDF_aborted(r) ==
    /\ reqs[r].kind = "summarize" /\ Awaited(r)
    /\ pdfs' = AppendChat(pdfs, reqs[r].pdf, Message("bot", AbortText))
    /\ summarizing' = FALSE
    /\ reqs' = [reqs EXCEPT ![r].origin = "gone", ![r].timeoutId = NoTimer]
    /\ UNCHANGED <<MAX_RETRY_ATTEMPTS, selectedPdf, uploading, asking>>
    /\ UNCHANGED <<vectorstore, generation_model, model_lock, sem_value,
                   sem_waiters, loads, calls>>

\* The backend answers a request the page has aborted: the connection is
\* closed and nobody reads the response.
response_unread(r) ==
    /\ reqs[r].origin = "gone" /\ reqs[r].pc = "responded"
    /\ reqs' = [reqs EXCEPT ![r] = FreeReq]
    /\ UNCHANGED feVars
    /\ UNCHANGED <<vectorstore, generation_model, model_lock, sem_value,
                   sem_waiters, loads, calls>>

----------------------------------------------------------------------------
(* Other clients of the backend (curl ... http://localhost:4000/...) *)

\* What such a client may put in the sessionId field of a body.
SessionIds == {"uuid-1"}

\* POST /upload, with or without a file in the form.
api_upload(r, f) ==
    /\ NewReq(r)
    /\ reqs' = [reqs EXCEPT ![r] = [FreeReq EXCEPT !.kind = "upload", !.origin = "api",
                                                   !.pc = "sent", !.file = f]]
    /\ UNCHANGED feVars
    /\ UNCHANGED <<vectorstore, generation_model, model_lock, sem_value,
                   sem_waiters, loads, calls>>

\* POST /ask with body { question, sessionId }.
api_ask(r, q, sid) ==
    /\ NewReq(r)
    /\ reqs' = [reqs EXCEPT ![r] = [FreeReq EXCEPT !.kind = "ask", !.origin = "api",
                                                   !.pc = "sent", !.q = q, !.sid = sid]]
    /\ UNCHANGED feVars
    /\ UNCHANGED <<vectorstore, generation_model, model_lock, sem_value,
                   sem_waiters, loads, calls>>

\* POST /summarize with body { sessionId }.
api_summarize(r, sid) ==
    /\ NewReq(r)
    /\ reqs' = [reqs EXCEPT ![r] = [FreeReq EXCEPT !.kind = "summarize", !.origin = "api",
                                                   !.pc = "sent", !.sid = sid]]
    /\ UNCHANGED feVars
    /\ UNCHANGED <<vectorstore, generation_model, model_lock, sem_value,
                   sem_waiters, loads, calls>>

\* The client reads the response.
api_settled(r) ==
    /\ reqs[r].origin = "api" /\ reqs[r].pc = "responded"
    /\ reqs' = [reqs EXCEPT ![r] = FreeReq]
    /\ UNCHANGED feVars
    /\ UNCHANGED <<vectorstore, generation_model, model_lock, sem_value,
                   sem_waiters, loads, calls>>

----------------------------------------------------------------------------
(* SpecGate: the service alone, a document already indexed, and NCalls       *)
(* questions sent straight to it at once                                     *)
(* (for i in {1..5}; do curl -X POST localhost:5000/ask ... & done).         *)

\* A question as it arrives at the service.
DirectAsk == [FreeCall EXCEPT !.kind = "ask", !.pc = "recv", !.q = Str(0, 1, 0)]

InitService ==
    /\ generation_model = None
    /\ model_lock = 0
    /\ sem_value = SemaphoreLimit
    /\ sem_waiters = <<>>
    /\ loads = 0

\* Nothing has been sent to the backend and the page has just been opened.
InitClients ==
    /\ pdfs = <<>>
    /\ selectedPdf = None
    /\ uploading = FALSE
    /\ asking = FALSE
    /\ summarizing = FALSE

InitGate ==
    /\ InitService
    /\ InitClients
    /\ MAX_RETRY_ATTEMPTS = DefaultRetryAttempts
    /\ reqs = <<>>
    /\ vectorstore = "docA"
    /\ calls = [c \in 1..NCalls |-> DirectAsk]

\* The event loop picks the pending requests up one by one; the call ids
\* number them in that order.
NextInOrder(c) == \A d \in CallIds : d < c => calls[d].pc # "recv"

NextGate ==
    \/ \E c \in CallIds : NextInOrder(c) /\ ask_question(c)
    \/ \E c \in CallIds : sem_resume(c)
    \/ \E c \in CallIds : load_generation_model(c)
    \/ \E c \in CallIds, device \in Devices : finish_load(c, device)
    \/ \E c \in CallIds, outcome \in Outcomes : generate_response(c, outcome)

SpecGate == InitGate /\ [][NextGate]_vars

\* The event loop keeps running whatever task is ready, and model.generate()
\* returns or raises after at most max_new_tokens steps.
SpecGateFair == SpecGate /\ WF_vars(NextGate)

----------------------------------------------------------------------------
(* Spec: clients of the backend's API, the backend and the service *)

\* Questions typed into the page or sent by other clients: a padded question
\* and a blank one.
Questions == {Str(1, 1, 1), Str(1, 0, 0)}

\* The backend runs with MAX_RETRY_ATTEMPTS=1 in its environment. At most
\* MaxReqs requests are in flight, no more than the gate has slots, so no
\* question waits for a slot here: waiting is the subject of SpecGate. The
\* page has just been opened.
Init ==
    /\ InitService
    /\ InitClients
    /\ MAX_RETRY_ATTEMPTS = 1
    /\ vectorstore = None
    /\ calls = [c \in 1..MaxCalls |-> FreeCall]
    /\ reqs = [r \in 1..MaxReqs |-> FreeReq]

Next ==
    \/ \E r \in ReqIds, f \in Docs \cup {None} : api_upload(r, f)
    \/ \E r \in ReqIds, q \in Questions, sid \in SessionIds \cup {None} :
          api_ask(r, q, sid)
    \/ \E r \in ReqIds, sid \in SessionIds \cup {None} : api_summarize(r, sid)
    \/ \E r \in ReqIds : api_settled(r)
    \/ \E r \in ReqIds : upload_handler(r)
    \/ \E r \in ReqIds : ask_handler(r)
    \/ \E r \in ReqIds : summarize_handler(r)
    \/ \E r \in ReqIds : upstream_settled(r)
    \/ \E c \in CallIds, ok \in BOOLEAN : process_pdf_build(c, ok)
    \/ \E c \in CallIds : process_pdf_store(c)
    \/ \E c \in CallIds : ask_question(c)
    \/ \E c \in CallIds : load_generation_model(c)
    \/ \E c \in CallIds, device \in Devices : finish_load(c, device)
    \/ \E c \in CallIds, outcome \in Outcomes : generate_response(c, outcome)

Spec == Init /\ [][Next]_vars

----------------------------------------------------------------------------
(* SpecPage: the page, the backend and the service. The user uploads,        *)
(* selects, asks and summarizes, and every request is answered in time       *)

NextPage ==
    \/ \E r \in ReqIds, f \in Docs : uploadPDF(r, f)
    \/ \E r \in ReqIds : uploadPDF_settled(r)
    \/ \E i \in 1..MaxPdfs : setSelectedPdf(i)
    \/ \E r \in ReqIds, q \in Questions : askQuestion(r, q)
    \/ \E r \in ReqIds : askQuestion_settled(r)
    \/ \E r \in ReqIds : summarizePDF(r)
    \/ \E r \in ReqIds : summarizePDF_settled(r)
    \/ \E r \in ReqIds : upload_handler(r)
    \/ \E r \in ReqIds : ask_handler(r)
    \/ \E r \in ReqIds : summarize_handler(r)
    \/ \E r \in ReqIds : upstream_settled(r)
    \/ \E c \in CallIds, ok \in BOOLEAN : process_pdf_build(c, ok)
    \/ \E c \in CallIds : process_pdf_store(c)
    \/ \E c \in CallIds : ask_question(c)
    \/ \E c \in CallIds : load_generation_model(c)
    \/ \E c \in CallIds, device \in Devices : finish_load(c, device)
    \/ \E c \in CallIds, outcome \in Outcomes : generate_response(c, outcome)

SpecPage == Init /\ [][NextPage]_vars

----------------------------------------------------------------------------
(* SpecTimers: the page, the backend and the service, the user working with  *)
(* one file, docA, which may be uploaded twice; the timers of the page (90 s *)
(* for an upload, 60 s for a question or a summary) may fire before the      *)
(* backend has answered                                                      *)

NextTimers ==
    \/ \E r \in ReqIds : uploadPDF(r, "docA")
    \/ \E r \in ReqIds : uploadPDF_settled(r)
    \/ \E r \in ReqIds : uploadPDF_aborted(r)
    \/ \E r \in ReqIds : askQuestion(r, Str(1, 1, 1))
    \/ \E r \in ReqIds : askQuestion_settled(r)
    \/ \E r \in ReqIds : askQuestion_aborted(r)
    \/ \E r \in ReqIds : summarizePDF(r)
    \/ \E r \in ReqIds : summarizePDF_settled(r)
    \/ \E r \in ReqIds : summarizePDF_aborted(r)
    \/ \E r \in ReqIds : response_unread(r)
    \/ \E r \in ReqIds : upload_handler(r)
    \/ \E r \in ReqIds : ask_handler(r)
    \/ \E r \in ReqIds : summarize_handler(r)
    \/ \E r \in ReqIds : upstream_settled(r)
    \/ \E c \in CallIds, ok \in BOOLEAN : process_pdf_build(c, ok)
    \/ \E c \in CallIds : process_pdf_store(c)
    \/ \E c \in CallIds : ask_question(c)
    \/ \E c \in CallIds : load_generation_model(c)
    \/ \E c \in CallIds, device \in Devices : finish_load(c, device)
    \/ \E c \in CallIds, outcome \in Outcomes : generate_response(c, outcome)

SpecTimers == Init /\ [][NextTimers]_vars

\* What the page does on its own for each of its handlers: the await
\* returns or throws once the response is there, and the timer set before
\* the await fires when it is not. Nothing is assumed of the backend or of
\* the service.
UploadEnds == \E r \in ReqIds : uploadPDF_settled(r) \/ uploadPDF_aborted(r)
AskEnds == \E r \in ReqIds : askQuestion_settled(r) \/ askQuestion_aborted(r)
SummarizeEnds == \E r \in ReqIds : summarizePDF_settled(r) \/ summarizePDF_aborted(r)

SpecTimersFair ==
    /\ SpecTimers
    /\ WF_vars(UploadEnds)
    /\ WF_vars(AskEnds)
    /\ WF_vars(SummarizeEnds)

----------------------------------------------------------------------------
(* SpecAsk: one client at a time asks the backend, docA being indexed and    *)
(* listed by the page, with questions around the limits of the input checks  *)

\* Questions have up to MaxPad whitespace characters on either side.
MaxPad == 1

\* Lengths of the part between the padding: none, one character, and the
\* lengths around MaxQuestionLength.
CoreLengths ==
    {0, 1} \cup ((MaxQuestionLength - 2 * MaxPad) .. (MaxQuestionLength + 1))

\* The strings a question field may hold.
QuestionStrings ==
    {Str(lead, core, trail) :
        lead \in 0..MaxPad, core \in CoreLengths, trail \in 0..MaxPad}

\* What the body of POST /ask may hold as `question`.
AskInputs == QuestionStrings \cup {NotAString}

InitAsk ==
    /\ InitService
    /\ MAX_RETRY_ATTEMPTS = 1
    /\ vectorstore = "docA"
    /\ pdfs = <<NewPdf("docA")>>
    /\ selectedPdf = FileName("docA")
    /\ uploading = FALSE
    /\ asking = FALSE
    /\ summarizing = FALSE
    /\ calls = [c \in 1..1 |-> FreeCall]
    /\ reqs = [r \in 1..1 |-> FreeReq]

NextAsk ==
    \/ \E r \in ReqIds, q \in QuestionStrings : askQuestion(r, q)
    \/ \E r \in ReqIds : askQuestion_settled(r)
    \/ \E r \in ReqIds, q \in AskInputs, sid \in SessionIds \cup {None} :
          api_ask(r, q, sid)
    \/ \E r \in ReqIds : api_settled(r)
    \/ \E r \in ReqIds : ask_handler(r)
    \/ \E r \in ReqIds : upstream_settled(r)
    \/ \E c \in CallIds : ask_question(c)
    \/ \E c \in CallIds : load_generation_model(c)
    \/ \E c \in CallIds, device \in Devices : finish_load(c, device)
    \/ \E c \in CallIds, outcome \in Outcomes : generate_response(c, outcome)

SpecAsk == InitAsk /\ [][NextAsk]_vars

----------------------------------------------------------------------------------------------------------------------------------------
(* SpecDeadline: one client at a time asks the backend about docA; attempts  *)
(* that run out of time (API_REQUEST_TIMEOUT) are given up by the backend    *)
(* and tried again while the service still works on them                     *)

\* The calls of the service one request can have going at once: the first
\* attempt and its retries.
MaxAttempts == 1 + DefaultRetryAttempts

InitDeadline ==
    /\ InitService
    /\ InitClients
    /\ MAX_RETRY_ATTEMPTS = DefaultRetryAttempts
    /\ vectorstore = "docA"
    /\ calls = [c \in 1..MaxAttempts |-> FreeCall]
    /\ reqs = [r \in 1..1 |-> FreeReq]

NextDeadline ==
    \/ \E r \in ReqIds, sid \in SessionIds : api_ask(r, Str(1, 1, 1), sid)
    \/ \E r \in ReqIds : api_settled(r)
    \/ \E r \in ReqIds : ask_handler(r)
    \/ \E r \in ReqIds : upstream_settled(r)
    \/ \E r \in ReqIds : upstream_timeout(r)
    \/ \E c \in CallIds : response_dropped(c)
    \/ \E c \in CallIds : ask_question(c)
    \/ \E c \in CallIds : sem_resume(c)
    \/ \E c \in CallIds : load_generation_model(c)
    \/ \E c \in CallIds, device \in Devices : finish_load(c, device)
    \/ \E c \in CallIds, outcome \in Outcomes : generate_response(c, outcome)

SpecDeadline == InitDeadline /\ [][NextDeadline]_vars

----------------------------------------------------------------------------
(* SpecTransport: one client request at a time, and a service that may       *)
(* answer any attempt with the status of any error kind                      *)

InitTransport ==
    /\ InitService
    /\ InitClients
    /\ MAX_RETRY_ATTEMPTS = 1
    /\ vectorstore = None
    /\ calls = [c \in 1..1 |-> FreeCall]
    /\ reqs = [r \in 1..1 |-> FreeReq]

NextTransport ==
    \/ \E r \in ReqIds, f \in Docs \cup {None} : api_upload(r, f)
    \/ \E r \in ReqIds, q \in Questions, sid \in SessionIds : api_ask(r, q, sid)
    \/ \E r \in ReqIds, sid \in SessionIds : api_summarize(r, sid)
    \/ \E r \in ReqIds : api_settled(r)
    \/ \E r \in ReqIds : upload_handler(r)
    \/ \E r \in ReqIds : ask_handler(r)
    \/ \E r \in ReqIds : summarize_handler(r)
    \/ \E r \in ReqIds : upstream_settled(r)
    \/ \E c \in CallIds, st \in ErrorStatuses : service_fails(c, st)
    \/ \E c \in CallIds, ok \in BOOLEAN : process_pdf_build(c, ok)
    \/ \E c \in CallIds : process_pdf_store(c)
    \/ \E c \in CallIds : ask_question(c)
    \/ \E c \in CallIds : load_generation_model(c)
    \/ \E c \in CallIds, device \in Devices : finish_load(c, device)
    \/ \E c \in CallIds, outcome \in Outcomes : generate_response(c, outcome)

SpecTransport == InitTransport /\ [][NextTransport]_vars

----------------------------------------------------------------------------
(* SpecRetry: one client request at a time, sent when the service is idle,   *)
(* with the default number of retries; attempts may fail with any status,    *)
(* fail to reach the service, or run out of time while the service goes on   *)

\* No call of an earlier request is left in the service.
ServiceIdle == \A c \in CallIds : calls[c].pc = "free"

InitRetry ==
    /\ InitService
    /\ InitClients
    /\ MAX_RETRY_ATTEMPTS = DefaultRetryAttempts
    /\ vectorstore = None
    /\ calls = [c \in 1..MaxAttempts |-> FreeCall]
    /\ reqs = [r \in 1..1 |-> FreeReq]

NextRetry ==
    \/ \E r \in ReqIds, f \in Docs \cup {None} : ServiceIdle /\ api_upload(r, f)
    \/ \E r \in ReqIds, q \in Questions, sid \in SessionIds :
          ServiceIdle /\ api_ask(r, q, sid)
    \/ \E r \in ReqIds, sid \in SessionIds : ServiceIdle /\ api_summarize(r, sid)
    \/ \E r \in ReqIds : api_settled(r)
    \/ \E r \in ReqIds : upload_handler(r)
    \/ \E r \in ReqIds : ask_handler(r)
    \/ \E r \in ReqIds : summarize_handler(r)
    \/ \E r \in ReqIds : upstream_settled(r)
    \/ \E r \in ReqIds : upstream_timeout(r)
    \/ \E r \in ReqIds : network_error(r)
    \/ \E c \in CallIds : response_dropped(c)
    \/ \E c \in CallIds, st \in ErrorStatuses : service_fails(c, st)
    \/ \E c \in CallIds, ok \in BOOLEAN : process_pdf_build(c, ok)
    \/ \E c \in CallIds : process_pdf_store(c)
    \/ \E c \in CallIds : ask_question(c)
    \/ \E c \in CallIds : sem_resume(c)
    \/ \E c \in CallIds : load_generation_model(c)
    \/ \E c \in CallIds, device \in Devices : finish_load(c, device)
    \/ \E c \in CallIds, outcome \in Outcomes : generate_response(c, outcome)

SpecRetry == InitRetry /\ [][NextRetry]_vars

\* What the backend does on its own: Express runs the handler of a request
\* that has arrived, the await of axios.post returns or throws once the
\* service has answered, and the timer of the timeout option fires when it
\* has not. Nothing is assumed of the service, which may stay silent.
BackendStep ==
    \E r \in ReqIds :
        \/ upload_handler(r)
        \/ ask_handler(r)
        \/ summarize_handler(r)
        \/ upstream_settled(r)
        \/ upstream_timeout(r)

SpecRetryFair == SpecRetry /\ WF_vars(BackendStep)

----------------------------------------------------------------------------
(* Properties of the documents served (Spec) *)

\* The service can answer questions about document d.
Queryable(d) == vectorstore = d

\* A question of the page that was answered from a document.
AnsweredAsk(r) ==
    /\ reqs[r].kind = "ask" /\ reqs[r].origin = "fe"
    /\ reqs[r].pc = "responded" /\ reqs[r].status = 200
    /\ reqs[r].from # None

\* C1 (isolation): a question asked about one document is answered from the
\* index of that document and from no other: every answer the page receives
\* was computed from the document that was selected when the question was
\* asked.
Isolation ==
    \A r \in ReqIds : AnsweredAsk(r) => reqs[r].from = reqs[r].pdf

\* C2 (no overwrite): processing an upload never removes or changes the
\* index of another document: a document that is queryable stays queryable.
NoOverwrite ==
    [][\A d \in Docs : Queryable(d) => Queryable(d)']_vars

\* A request that names a session and passes the input checks of the backend.
\* The service has issued no session id, so the session it names was never
\* created.
NamesUnknownSession(r) ==
    /\ reqs[r].kind \in {"ask", "summarize"}
    /\ reqs[r].sid \in SessionIds
    /\ ~(reqs[r].kind = "ask" /\ AskRejected(reqs[r].q))

EndToEndSessionId ==
    /\ \A r \in ReqIds :
          reqs[r].kind = "upload" /\ reqs[r].pc = "responded" /\ reqs[r].status = 200
              => reqs[r].rsid # None
    /\ \A c \in CallIds :
          calls[c].kind \in {"ask", "summarize"} /\ calls[c].req \in ReqIds
              => calls[c].sid # None /\ calls[c].sid = reqs[calls[c].req].sid

\* An upload the backend has answered with success.
UploadSucceeded(r) ==
    reqs[r].kind = "upload" /\ reqs[r].pc = "responded" /\ reqs[r].status = 200

\* C12 (fresh session ids): every successful upload is answered with a
\* session id, and no two uploads are answered with the same one.
FreshSessionId ==
    /\ \A r \in ReqIds : UploadSucceeded(r) => reqs[r].rsid # None
    /\ \A r1, r2 \in ReqIds :
          r1 # r2 /\ UploadSucceeded(r1) /\ UploadSucceeded(r2)
              => reqs[r1].rsid # reqs[r2].rsid

\* The calls of the service made for request r.
CallsOf(r) == {c \in CallIds : calls[c].req = r}

\* C15 (sessionId required): an ask or summarize request whose body has no
\* sessionId is answered with 400 by the backend and never reaches the
\* service.
SessionIdRequired ==
    \A r \in ReqIds :
        /\ reqs[r].kind \in {"ask", "summarize"}
        /\ reqs[r].sid = None
        /\ reqs[r].pc \notin {"free", "sent"}
        => /\ reqs[r].pc = "responded"
           /\ reqs[r].status = 400
           /\ CallsOf(r) = {}

\* An ask of any client that was answered from document reqs[r].from.
Answered(r) ==
    /\ reqs[r].kind = "ask"
    /\ reqs[r].pc = "responded" /\ reqs[r].status = 200
    /\ reqs[r].from # None

\* C16 (truncation visibility): whenever the context retrieved for an ask,
\* with the question, exceeds the prompt budget, the answer the caller gets
\* carries contextTruncated = true.
TruncationVisible ==
    \A r \in ReqIds :
        /\ Answered(r)
        /\ ContextTokens(reqs[r].from) + reqs[r].q.core > MaxPromptTokens
        => reqs[r].contextTruncated

\* Call c attaches the index it has built in this step (the commit).
Commits(c) == calls[c].pc = "built" /\ calls'[c].pc # "built"

\* C17 (commit once): an index is attached at most once: a commit that finds
\* an index attached already fails and leaves that index in place.
CommitOnce ==
    [][\A c \in CallIds :
          Commits(c) /\ vectorstore # None =>
              /\ vectorstore' = vectorstore
              /\ calls'[c].status # 200]_vars

\* The backend answers upload r in this step, the last attempt of the
\* service to process the file having failed.
AnswersFailedUpload(r) ==
    /\ reqs[r].kind = "upload"
    /\ reqs[r].pc = "forwarded" /\ reqs'[r].pc = "responded"
    /\ calls[reqs[r].call].pc = "failed"

\* The page takes the failure of upload r in this step.
TakesFailedUpload(r) ==
    /\ reqs[r].kind = "upload" /\ reqs[r].origin = "fe"
    /\ reqs[r].pc = "responded" /\ reqs[r].status # 200
    /\ reqs'[r].pc = "free"

\* C18: a document becomes queryable only by a call that has built its
\* index; an upload whose processing failed is answered with an error and
\* without a session id, and the page neither lists the file nor changes the
\* selected document.
FailedUploadInvisible ==
    [][/\ vectorstore' # vectorstore =>
             \E c \in CallIds : calls[c].pc = "built" /\ vectorstore' = calls[c].used
       /\ \A r \in ReqIds :
             AnswersFailedUpload(r) =>
                 reqs'[r].status >= 400 /\ reqs'[r].rsid = None
       /\ \A r \in ReqIds :
             TakesFailedUpload(r) =>
                 pdfs' = pdfs /\ selectedPdf' = selectedPdf]_vars

\* C18 witness: with docA listed, selected and queryable, the upload of
\* docB from the page has failed in the service and was answered with 500.
FailedUploadInvisibleWitness ==
    \E r \in ReqIds :
        /\ reqs[r].kind = "upload" /\ reqs[r].origin = "fe"
        /\ reqs[r].pc = "responded" /\ reqs[r].status = 500
        /\ reqs[r].file = "docB"
        /\ Len(pdfs) = 1 /\ selectedPdf = FileName("docA")
        /\ Queryable("docA")

----------------------------------------------------------------------------
(* Properties of the input checks (SpecAsk) *)

\* A question the claim calls invalid: missing or not a string, empty or
\* whitespace-only, or longer than the maximum.
InvalidQuestion(q) ==
    \/ ~q.str
    \/ q.core = 0
    \/ q.lead + q.core + q.trail > MaxQuestionLength

\* C13: when the backend takes up an ask, an invalid question is answered
\* with 400 and no request goes to the service; every other question is
\* forwarded to the service (trimmed).
QuestionValidation ==
    [][\A r \in ReqIds :
          reqs[r].kind = "ask" /\ reqs[r].pc = "sent" /\ reqs'[r].pc # "sent" =>
              IF InvalidQuestion(reqs[r].q)
              THEN /\ reqs'[r].pc = "responded"
                   /\ reqs'[r].status = 400
                   /\ calls' = calls
              ELSE /\ reqs'[r].pc = "forwarded"
                   /\ \E c \in CallIds :
                         /\ calls[c].pc = "free"
                         /\ calls'[c].req = r
                         /\ calls'[c].kind = "ask"
                         /\ calls'[c].pc = "recv"
                         /\ calls'[c].q = Str(0, reqs[r].q.core, 0)]_vars

\* C13 witness: a question that is too long only because of its padding was
\* answered with 400 and nothing was sent to the service.
QuestionValidationWitness ==
    \E r \in ReqIds :
        /\ reqs[r].kind = "ask" /\ reqs[r].pc = "responded"
        /\ reqs[r].status = 400
        /\ reqs[r].q.str
        /\ reqs[r].q.core > 0 /\ reqs[r].q.core <= MaxQuestionLength
        /\ Length(reqs[r].q) > MaxQuestionLength
        /\ \A c \in CallIds : calls[c].pc = "free"

----------------------------------------------------------------------------
(* Properties of the deadline (SpecDeadline) *)

\* The deadline of call c has passed: the backend has given the attempt up.
DeadlinePassed(c) == calls[c].req = Abandoned

\* C11: a call that is still waiting for a slot when its deadline has passed
\* is not given a slot any more: it stays in the queue only until it is
\* answered with Overloaded (503).
DeadlineOverloaded ==
    [][\A c \in CallIds :
          DeadlinePassed(c) /\ calls[c].pc = "waiting" =>
              \/ calls'[c].pc = "waiting"
              \/ calls'[c].pc \in Terminal /\ calls'[c].status = 503]_vars

\* Call c has its future in the queue of the semaphore.
InQueue(c) == \E i \in 1..Len(sem_waiters) : sem_waiters[i] = c

\* C21: a call given up before it acquired a slot is taken out of the wait
\* queue, so that it holds no slot, touches no model state and delays nobody
\* behind it: no call whose request was given up is still queued for a slot.
CancelledLeavesQueue ==
    \A c \in CallIds :
        DeadlinePassed(c) /\ calls[c].pc = "waiting" => ~InQueue(c)

----------------------------------------------------------------------------
(* Properties of the retries (SpecRetry) *)

\* The backend starts another attempt for request r in this step.
Retries(r) ==
    reqs[r].pc = "forwarded" /\ reqs'[r].attempts > reqs[r].attempts

\* C23: a request gets at most 1 + MAX_RETRY_ATTEMPTS attempts; another
\* attempt is started only when the current one is still unanswered (it ran
\* out of time or did not get through) or was answered with a 5xx status,
\* never after a 4xx answer and never after a success.
RetryPolicy ==
    [][\A r \in ReqIds :
          /\ reqs'[r].attempts <= 1 + MAX_RETRY_ATTEMPTS
          /\ Retries(r) =>
                \/ calls[reqs[r].call].pc \notin Terminal
                \/ calls[reqs[r].call].status >= 500]_vars

\* C23 witness: a request was answered with an error after the first attempt
\* and all of the default three retries.
RetryPolicyWitness ==
    \E r \in ReqIds :
        /\ reqs[r].pc = "responded" /\ reqs[r].status = 503
        /\ reqs[r].attempts = 1 + DefaultRetryAttempts

\* The backend answers request r with a failure of the upstream call in
\* this step.
AnswersFailure(r) ==
    /\ reqs[r].pc = "forwarded" /\ reqs'[r].pc = "responded"
    /\ reqs'[r].status # 200

\* The step gives the last attempt of request r up for running out of time:
\* the service is left working on it.
TimesOut(r) == calls'[reqs[r].call].req = Abandoned

\* The last attempt of request r was answered by the service with 504.
Upstream504(r) ==
    calls[reqs[r].call].pc \in Terminal /\ calls[reqs[r].call].status = 504

\* C24: a request whose upstream call ends in a timeout or in an upstream
\* 504 is answered, once the retries are used up, with 504; every other
\* upstream failure is answered with the upstream status by /ask and
\* /summarize (500 if there is none) and with 500 by /upload, never with 504.
TimeoutStatus ==
    [][\A r \in ReqIds :
          AnswersFailure(r) =>
              IF TimesOut(r) \/ Upstream504(r)
              THEN /\ reqs'[r].status = 504
                   /\ reqs[r].attempts = 1 + MAX_RETRY_ATTEMPTS
              ELSE /\ reqs'[r].status # 504
                   /\ reqs'[r].status =
                         IF reqs[r].kind = "upload" THEN 500
                         ELSE IF calls[reqs[r].call].pc \in Terminal
                         THEN calls[reqs[r].call].status
                         ELSE 500]_vars

\* C24 witness: a request was answered with 504 after its attempts had run
\* out of time, the service still working on one of them.
TimeoutStatusWitness ==
    \E r \in ReqIds :
        /\ reqs[r].pc = "responded" /\ reqs[r].status = 504
        /\ reqs[r].attempts = 1 + DefaultRetryAttempts
        /\ \E c \in CallIds : calls[c].req = Abandoned /\ calls[c].pc \notin Terminal

\* C25: every request that reaches the backend is answered, whether it fails
\* the input checks, the service answers, the service fails or the service
\* stays silent; and it is answered once: a response that was sent is only
\* read by the client, never replaced by another.
ExactlyOneResponse ==
    /\ [][\A r \in ReqIds :
             reqs[r].pc = "responded" =>
                 reqs'[r] = reqs[r] \/ reqs'[r].pc = "free"]_vars
    /\ (reqs[1].pc \in {"sent", "forwarded"}) ~> (reqs[1].pc = "responded")

\* C25 witness: the service has stayed silent on every attempt of a request,
\* and the request was answered.
ExactlyOneResponseWitness ==
    /\ reqs[1].pc = "responded" /\ reqs[1].status = 504
    /\ \A c \in CallIds : calls[c].req = Abandoned /\ calls[c].pc = "recv"

\* The calls of the service that have indexed a document and stored the
\* index; in SpecRetry they all belong to the one upload in progress.
Indexed == {c \in CallIds : calls[c].kind = "process" /\ calls[c].pc = "stored"}

\* C26: one upload makes the service index the document at most once,
\* retries and timeouts included.
ProcessedOnce == Cardinality(Indexed) <= 1

----------------------------------------------------------------------------
(* Properties of the error statuses (SpecTransport) *)

\* The backend answers request r in this step, with the final answer of the
\* service to it being an error.
AnswersUpstreamError(r) ==
    /\ reqs[r].pc = "forwarded"
    /\ reqs'[r].pc = "responded"
    /\ calls[reqs[r].call].status \in ErrorStatuses

\* C14: the backend answers upload, ask and summarize with the status of the
\* error kind the service answered with (404, 503, 400, ...): different
\* error kinds of the service are not collapsed into one status.
ErrorKindsKept ==
    [][\A r \in ReqIds :
          AnswersUpstreamError(r) =>
              reqs'[r].status = calls[reqs[r].call].status]_vars

----------------------------------------------------------------------------
(* Properties of the model gate (SpecGate, SpecGateFair) *)

Executing == {c \in CallIds : calls[c].pc \in InSlot}
Woken     == {c \in CallIds : calls[c].pc = "woken"}
Waiting   == {c \in CallIds : calls[c].pc = "waiting"}

\* C5: at every instant at most SemaphoreLimit (2) calls are inside
\* `async with inference_semaphore`, that is loading the model or generating;
\* every call beyond the bound is in the semaphore's queue, not executing.
BoundedConcurrency ==
    /\ Cardinality(Executing) <= SemaphoreLimit
    /\ \A c \in Waiting \cup Woken :
          \E i \in 1..Len(sem_waiters) : sem_waiters[i] = c

\* C5 witness: both slots are generating while further calls wait in the queue.
BoundedConcurrencyWitness ==
    /\ Cardinality({c \in CallIds : calls[c].pc = "generating"}) = SemaphoreLimit
    /\ Cardinality(Waiting) >= 2

\* C6: however many first-time calls run concurrently, the generation model
\* is constructed at most once; at most one call is loading at a time, and
\* every call that generates found the model of that one load.
SingleFlightLoad ==
    /\ loads <= 1
    /\ Cardinality({c \in CallIds : calls[c].pc = "loading"}) <= 1
    /\ \A c \in CallIds :
          calls[c].pc \in {"generating"} \cup Exited =>
              loads = 1 /\ generation_model # None

\* C6 witness: two first-time calls (nothing has finished yet) generate at
\* the same time on the one model that was loaded.
SingleFlightLoadWitness ==
    /\ loads = 1
    /\ Cardinality({c \in CallIds : calls[c].pc = "generating"}) = 2
    /\ \A c \in CallIds : calls[c].pc \notin Exited

\* The slots taken from the semaphore are those of the calls inside
\* `async with` and of the waiters that were just handed one.
NoSlotLeaked ==
    SemaphoreLimit - sem_value = Cardinality(Executing) + Cardinality(Woken)

\* C7: in every state the slots taken from the semaphore are exactly those of
\* the calls inside `async with` (or just handed a slot), and every call that
\* has left generate_response on a GPU model, on whatever path, has emptied
\* the CUDA cache.
GuaranteedRelease ==
    /\ NoSlotLeaked
    /\ \A c \in CallIds :
          calls[c].pc \in Exited /\ generation_model = "cuda" => calls[c].cleaned


\* C8: a call that ran out of GPU memory is answered with 503, and the model
\* stays loaded (on the GPU or, after the fallback, on the CPU), the lock is
\* not left held by it and its slot is back, so later calls can generate.
ExhaustionRecovery ==
    \A c \in CallIds :
        calls[c].pc = "oom" =>
            /\ calls[c].status = 503
            /\ generation_model \in Devices
            /\ model_lock # c
            /\ NoSlotLeaked

\* C8 witness: a call that arrived after one that ran out of memory has
\* succeeded.
ExhaustionRecoveryWitness ==
    \E c, d \in CallIds :
        /\ calls[c].pc = "oom"
        /\ calls[d].pc = "ok"
        /\ d > c

\* C9: every call that had to queue for a slot is eventually processed: it
\* leaves generate_response with an answer or with a reported error.
QueuedEventuallyProcessed ==
    \A c \in 1..NCalls : (calls[c].pc = "waiting") ~> (calls[c].pc \in Exited)

\* C9 witness: of the concurrent calls, all but SemaphoreLimit had to queue
\* (5 calls: 2 ran at once, 3 queued), and all of them succeeded.
QueuedEventuallyProcessedWitness ==
    /\ \A c \in CallIds : calls[c].pc = "ok"
    /\ Cardinality({c \in CallIds : calls[c].queued}) = Cardinality(CallIds) - SemaphoreLimit
    /\ Cardinality(CallIds) > SemaphoreLimit

\* Call c gets a slot in this step: at once on arrival, or by being woken.
GetsSlot(c) ==
    \/ calls[c].pc = "recv" /\ calls'[c].pc = "held"
    \/ calls[c].pc = "waiting" /\ calls'[c].pc = "woken"

\* C10: slots are given out in arrival order (in SpecGate the call ids are
\* the order in which the calls reach the semaphore): whenever a call gets a
\* slot, no call that arrived before it is still waiting.
FIFOOrder ==
    [][\A c \in CallIds :
          GetsSlot(c) =>
              \A d \in CallIds : d # c /\ calls[d].pc = "waiting" => d > c]_vars

\* C10 witness: a queued call has been given its slot while a call that
\* arrived after it is still waiting.
FIFOOrderWitness ==
    \E c, d \in CallIds :
        /\ calls[c].queued
        /\ calls[c].pc \in {"woken", "held"}
        /\ calls[d].pc = "waiting"
        /\ c < d

\* The state of the model handle, read off the global and the lock: the
\* model on the GPU, the model on the CPU after the fallback, a load in
\* progress, or nothing loaded.
ModelHandle ==
    IF generation_model = "cuda" THEN "Ready"
    ELSE IF generation_model = "cpu" THEN "Degraded"
    ELSE IF model_lock # 0 THEN "Loading"
    ELSE "Unloaded"

\* Call c passes load_generation_model() in this step.
EnsuresLoaded(c) == calls[c].pc = "held" /\ calls'[c].pc # "held"

\* A caller that finds the model loaded gets it at once: nothing is loaded
\* and the handle stays as it is.
ReturnsLoaded ==
    \A c \in CallIds :
        EnsuresLoaded(c) /\ ModelHandle \in {"Ready", "Degraded"} =>
            /\ calls'[c].pc = "generating"
            /\ loads' = loads /\ model_lock' = model_lock
            /\ ModelHandle' = ModelHandle

----------------------------------------------------------------------------
(* Properties of the chats (SpecPage) *)

\* The page takes the response to question r in this step.
RepliesTo(r) ==
    /\ reqs[r].kind = "ask" /\ reqs[r].origin = "fe"
    /\ reqs[r].pc = "responded" /\ reqs'[r].pc = "free"

\* Entry i of pdfs gets one more message, a bot message, in this step.
GetsBotMessage(i) ==
    /\ pdfs'[i].name = pdfs[i].name
    /\ Len(pdfs'[i].chat) = Len(pdfs[i].chat) + 1
    /\ SubSeq(pdfs'[i].chat, 1, Len(pdfs[i].chat)) = pdfs[i].chat
    /\ pdfs'[i].chat[Len(pdfs'[i].chat)].role = "bot"

\* C27: the reply to a question, answer or error text, goes to the chat of
\* the document that was selected when the question was asked, whatever is
\* selected when the reply arrives, and to no other chat.
ReplyToAskedDocument ==
    [][\A r \in ReqIds :
          RepliesTo(r) =>
              /\ Len(pdfs') = Len(pdfs)
              /\ \A i \in 1..Len(pdfs) :
                    IF pdfs[i].name = reqs[r].pdf
                    THEN GetsBotMessage(i)
                    ELSE pdfs'[i] = pdfs[i]]_vars

\* C27 witness: the response to a question asked about one document is
\* there while another document is selected.
ReplyToAskedDocumentWitness ==
    \E r \in ReqIds :
        /\ reqs[r].kind = "ask" /\ reqs[r].origin = "fe"
        /\ reqs[r].pc = "responded"
        /\ selectedPdf # reqs[r].pdf
        /\ \E i \in 1..Len(pdfs) : pdfs[i].name = selectedPdf

\* The entries of pdfs that differ after this step.
ChangedEntries == {i \in 1..Len(pdfs) : pdfs'[i] # pdfs[i]}

\* C28: a chat message is added to the chat of exactly one listed document:
\* a step that changes chats changes one entry of the list and leaves every
\* other entry as it was, also when two listed files have the same name.
OneChatChanged ==
    [][Len(pdfs') = Len(pdfs) => Cardinality(ChangedEntries) <= 1]_vars

----------------------------------------------------------------------------
(* Properties of the page with its timers (SpecTimers, SpecTimersFair) *)

\* Request r is a question of the page that the page still awaits.
AwaitedAsk(r) == reqs[r].kind = "ask" /\ Awaited(r)

\* Entry i of pdfs gets one more message, the question of request r as it
\* is after this step.
GetsUserMessage(i, r) ==
    /\ pdfs'[i].name = pdfs[i].name
    /\ pdfs'[i].chat = Append(pdfs[i].chat, Message("user", reqs'[r].q))

\* The listed documents called `name`.
Named(name) == {i \in 1..Len(pdfs) : pdfs[i].name = name}

\* No document is listed or dropped in this step, and the entries of the
\* documents not called `name` stay as they are.
OthersUntouched(name) ==
    /\ Len(pdfs') = Len(pdfs)
    /\ \A i \in (1..Len(pdfs)) \ Named(name) : pdfs'[i] = pdfs[i]

\* C29: a question started from the page adds one user message to the chat
\* of its document when it starts and one bot message when it ends, by a
\* response of either kind or by the page's timer; it ends once, the response
\* to an aborted question adds nothing, and every question started ends.
OneQuestionOneReply ==
    /\ [][\A r \in ReqIds :
             /\ ~AwaitedAsk(r) /\ AwaitedAsk(r)' =>
                   /\ OthersUntouched(reqs'[r].pdf)
                   /\ Named(reqs'[r].pdf) # {}
                   /\ \A i \in Named(reqs'[r].pdf) : GetsUserMessage(i, r)
             /\ AwaitedAsk(r) /\ ~AwaitedAsk(r)' =>
                   /\ OthersUntouched(reqs[r].pdf)
                   /\ Named(reqs[r].pdf) # {}
                   /\ \A i \in Named(reqs[r].pdf) : GetsBotMessage(i)
             /\ reqs[r].kind = "ask" /\ reqs[r].origin = "gone"
                /\ reqs[r].pc = "responded" /\ reqs'[r] # reqs[r] =>
                   pdfs' = pdfs]_vars
    /\ \A r \in 1..MaxReqs : AwaitedAsk(r) ~> ~AwaitedAsk(r)

\* C29 witness: the chat of a document holds a question followed by the
\* text shown when the page's timer has aborted the request, and the backend
\* is still working on that request.
OneQuestionOneReplyWitness ==
    /\ \E i \in 1..Len(pdfs) :
          /\ Len(pdfs[i].chat) = 2
          /\ pdfs[i].chat[1].role = "user"
          /\ pdfs[i].chat[2] = Message("bot", AbortText)
    /\ \E r \in ReqIds :
          reqs[r].kind = "ask" /\ reqs[r].origin = "gone" /\ reqs[r].pc = "forwarded"
    /\ ~asking

\* The requests of a kind that the page awaits.
AwaitedOf(kind) == {r \in ReqIds : reqs[r].kind = kind /\ Awaited(r)}

----------------------------------------------------------------------------
(* SpecClock: the page asks one question about docA and time passes: the    *)
(* timer of the page fires 60 s after the post, an attempt of the backend   *)
(* runs out API_REQUEST_TIMEOUT after it began, and the service answers     *)
(* whenever it does                                                         *)

InitClock ==
    /\ InitService
    /\ MAX_RETRY_ATTEMPTS = DefaultRetryAttempts
    /\ vectorstore = "docA"
    /\ pdfs = <<NewPdf("docA")>>
    /\ selectedPdf = FileName("docA")
    /\ uploading = FALSE
    /\ asking = FALSE
    /\ summarizing = FALSE
    /\ calls = [c \in 1..MaxAttempts |-> FreeCall]
    /\ reqs = [r \in 1..1 |-> FreeReq]

\* The times left on the timers that run: setTimeout of the page while the
\* post is awaited, the timeout of axios while an attempt is out.
Timers ==
    {reqs[r].timeoutId : r \in {x \in ReqIds : Awaited(x)}}
        \cup {reqs[r].timeout : r \in {x \in ReqIds : reqs[x].pc = "forwarded"}}

\* The page or the backend has a step to take for request r that waits for
\* nothing: the handler has the request to read, the await of axios.post has
\* an answer of the service, or the await of the page has the response.
Ready(r) ==
    \/ reqs[r].pc = "sent"
    \/ reqs[r].pc = "forwarded" /\ calls[reqs[r].call].pc \in Terminal
    \/ reqs[r].pc = "responded"

\* Time passes up to the moment the next timer is due. Only the service
\* takes time: the page and the backend take the steps they are ready for,
\* and a timer that is due fires or is cleared, before more time passes.
tick ==
    /\ Timers # {}
    /\ 0 \notin Timers
    /\ \A r \in ReqIds : ~Ready(r)
    /\ LET d == CHOOSE t \in Timers : \A u \in Timers : t <= u
       IN  reqs' = [r \in ReqIds |->
                      [reqs[r] EXCEPT
                         !.timeoutId = IF Awaited(r) THEN @ - d ELSE @,
                         !.timeout = IF reqs[r].pc = "forwarded" THEN @ - d ELSE @]]
    /\ UNCHANGED feVars
    /\ UNCHANGED <<vectorstore, generation_model, model_lock, sem_value,
                   sem_waiters, loads, calls>>

\* The timer of request r kept in the given field runs and is due.
Due(r, timer) == reqs[r][timer] = 0

NextClock ==
    \/ \E r \in ReqIds : askQuestion(r, Str(1, 1, 1))
    \/ \E r \in ReqIds : askQuestion_settled(r)
    \/ \E r \in ReqIds : Due(r, "timeoutId") /\ askQuestion_aborted(r)
    \/ \E r \in ReqIds : response_unread(r)
    \/ \E r \in ReqIds : ask_handler(r)
    \/ \E r \in ReqIds : upstream_settled(r)
    \/ \E r \in ReqIds : Due(r, "timeout") /\ upstream_timeout(r)
    \/ \E c \in CallIds : response_dropped(c)
    \/ tick
    \/ \E c \in CallIds : ask_question(c)
    \/ \E c \in CallIds : load_generation_model(c)
    \/ \E c \in CallIds, device \in Devices : finish_load(c, device)
    \/ \E c \in CallIds, outcome \in Outcomes : generate_response(c, outcome)

SpecClock == InitClock /\ [][NextClock]_vars

\* The timer of the page has ended the ask of request r while the backend
\* still has an attempt out for it.
AbortedWhileRetrying(r) ==
    /\ reqs[r].kind = "ask"
    /\ reqs[r].origin = "gone"
    /\ reqs[r].pc = "forwarded"

====
